---------------------------- MODULE Spec2Model ----------------------------
(***************************************************************************)
(* Flood-control-projects explorer of bettergov: the filter state of the   *)
(* dashboard (pages/flood-control-projects/index.tsx) and of the table     *)
(* view (pages/flood-control-projects/table.tsx), the predicate sent to    *)
(* the Query Facade, the dashboard's aggregation sub-queries, the table's  *)
(* sort state and the export handler; the visa-type detail page            *)
(* (pages/travel/visa-types/[type].tsx), the region map explorer           *)
(* (PhilippinesMap) and the regional LGU page (RegionalLGUPage).           *)
(*                                                                         *)
(* Strings are sequences of atoms: the atom " " is one whitespace          *)
(* character, every other atom is a run of non-whitespace text.  '' is     *)
(* the empty sequence.  trim, join and the template literals of the code   *)
(* are computed on these sequences.                                        *)
(***************************************************************************)
EXTENDS Integers, Sequences, FiniteSets, TLC

VARIABLES
    view,            \* which page is mounted: "index" (dashboard), "table",
                     \* "visa", "map" or "lgu"
    lookups,         \* the arrays of the imported lookup files that are sorted
    filters,         \* useState<FilterState>: facet name -> selected value
    searchTerm,      \* useState(''): the free-text query
    filtersApplied,  \* dashboard only: useState(false)
    configure,       \* props of the page's <Configure>: filters and query
    widget,          \* the dashboard aggregation widget that is followed
    pending,         \* that widget's (or the table's) query is in flight
    results,         \* its useHits() results: NoResults or a response
    sortField,       \* TableHits: useState('ProjectDescription')
    sortDirection,   \* TableHits: useState('asc')
    currentPage,     \* TableHits: useState(0)
    sortedHits,      \* TableHits: the sortedHits of the last render
    isExporting,     \* useState(false)
    exports,         \* calls of handleExportData: id -> record
    notices,         \* alert() calls: id of the export -> sequence of kinds
    files,           \* downloads written by the export pipeline
    type,            \* VisaTypeDetail: useParams().type
    visa,            \* VisaTypeDetail: useState<VisaType | null>(null)
    loading,         \* VisaTypeDetail: useState(true)
    error,           \* VisaTypeDetail: useState<string | null>(null)
    selectedCategory,\* VisaTypeDetail: useState('')
    lookupDue,       \* VisaTypeDetail: the effect on [type] has yet to run
    selectedRegion,  \* PhilippinesMap: useState<RegionData | null>(null)
    isLoadingDetails,\* PhilippinesMap: useState(false)
    wikipediaCache,  \* the module-level Map: region name -> response data
    clicks,          \* PhilippinesMap: calls of onRegionClick: id -> record
    lguRegion,       \* RegionalLGUPage: useParams().region
    lguRegionData,   \* RegionalLGUPage: useState<RegionLGU | null>(null)
    lguLoads,        \* RegionalLGUPage: runs of the effect on [region]
    lastOp           \* history: the handler that ran last and its arguments

visaVars   == <<type, visa, loading, error, selectedCategory, lookupDue>>
mapVars    == <<selectedRegion, isLoadingDetails, wikipediaCache, clicks>>
lguVars    == <<lguRegion, lguRegionData, lguLoads>>
otherPages == <<visaVars, mapVars, lguVars>>
pageVars   == <<view, lookups, otherPages>>
filterVars == <<filters, searchTerm, filtersApplied, configure>>
dashVars   == <<widget, pending, results>>
tableVars  == <<sortField, sortDirection, currentPage, sortedHits>>
exportVars == <<isExporting, exports, notices, files>>
vars == <<pageVars, filterVars, dashVars, tableVars, exportVars, lastOp>>
FloodPageState == <<lookups, filterVars, dashVars, tableVars, exportVars>>

(***************************************************************************)
(* Bounds of the model.                                                    *)
(***************************************************************************)
MaxExports == 2   \* export clicks followed in one run
MaxPages   == 2   \* pages one export fetches at most
MaxHits    == 2   \* hit records materialised in one response

(***************************************************************************)
(* Strings.                                                                *)
(***************************************************************************)
Empty == <<>>
Space == " "
Quote == "\""

\* JavaScript truthiness of a string: non-empty.
Truthy(s) == s # Empty

RECURSIVE trimStart(_)
trimStart(s) ==
    IF s # Empty /\ Head(s) = Space THEN trimStart(Tail(s)) ELSE s

RECURSIVE trimEnd(_)
trimEnd(s) ==
    IF s # Empty /\ s[Len(s)] = Space
    THEN trimEnd(SubSeq(s, 1, Len(s) - 1))
    ELSE s

\* String.prototype.trim
trim(s) == trimEnd(trimStart(s))

\* Array.prototype.join
RECURSIVE join(_, _)
join(parts, sep) ==
    IF parts = <<>> THEN Empty
    ELSE IF Len(parts) = 1 THEN parts[1]
    ELSE parts[1] \o sep \o join(Tail(parts), sep)

\* The UTF-16 code units of the atoms that are compared as text.
CodeUnits(atom) ==
    CASE atom = " "    -> <<32>>
      [] atom = "2021" -> <<50, 48, 50, 49>>
      [] atom = "2022" -> <<50, 48, 50, 50>>
      [] atom = "A"    -> <<65>>
      [] atom = "B"    -> <<66>>
      [] atom = "a"    -> <<97>>
      [] atom = "b"    -> <<98>>
      [] atom = "Acme" -> <<65, 99, 109, 101>>
      [] atom = "Bato" -> <<66, 97, 116, 111>>
      [] atom = "Corp" -> <<67, 111, 114, 112>>

RECURSIVE charCodes(_)
charCodes(text) ==
    IF text = <<>> THEN <<>>
    ELSE CodeUnits(Head(text)) \o charCodes(Tail(text))

\* String.prototype.toLowerCase
toLowerCase(codes) ==
    [i \in DOMAIN codes |->
        IF codes[i] \in 65..90 THEN codes[i] + 32 ELSE codes[i]]

\* valueA < valueB on strings
RECURSIVE StringLess(_, _)
StringLess(x, y) ==
    IF y = <<>> THEN FALSE
    ELSE IF x = <<>> THEN TRUE
    ELSE IF Head(x) # Head(y) THEN Head(x) < Head(y)
    ELSE StringLess(Tail(x), Tail(y))

Min(a, b) == IF a < b THEN a ELSE b
Max(a, b) == IF a > b THEN a ELSE b

\* Array.prototype.slice(from, to)
slice(array, from, to) == SubSeq(array, from + 1, Min(to, Len(array)))

\* Array.prototype.sort with a consistent comparator: the stable sort.
\* Before(x, y) is comparator(x, y) < 0.
SortBy(array, Before(_, _)) ==
    LET n == Len(array)
        rank == SubSeq([i \in 1..n |->
                    1 + Cardinality({j \in 1..n :
                          \/ Before(array[j], array[i])
                          \/ (j < i /\ ~Before(array[i], array[j]))})],
                    1, n)
    IN  [k \in 1..n |-> array[CHOOSE i \in 1..n : rank[i] = k]]

(***************************************************************************)
(* Lookup tables: a sample of the static JSON files, with the shape the    *)
(* code reads (value, count, and regCode for regions and provinces).       *)
(***************************************************************************)
Undefined == "undefined"
Null == "null"

FacetNames ==
    {"InfraYear", "Region", "Province", "TypeofWork",
     "DistrictEngineeringOffice", "LegislativeDistrict"}

NCR == <<"National", " ", "Capital", " ", "Region">>

infraYearData ==
    << [value |-> <<"2022">>, count |-> 5],
       [value |-> <<"2021">>, count |-> 3] >>

regionData ==
    << [value |-> NCR, count |-> 4, regCode |-> "13"],
       [value |-> <<"Region", " ", "I">>, count |-> 6, regCode |-> "01"] >>

provinceData ==
    << [value |-> <<"Metro", " ", "Manila">>, count |-> 4, regCode |-> "13"],
       [value |-> <<"Ilocos", " ", "Norte">>, count |-> 3, regCode |-> "01"],
       [value |-> <<"Unspecified">>, count |-> 1, regCode |-> Undefined] >>

typeOfWorkData ==
    << [value |-> <<"Dike">>, count |-> 8] >>

contractorData ==
    << [value |-> <<"Acme">>, count |-> 2],
       [value |-> <<"Bato", " ", "Corp">>, count |-> 5] >>

deoData ==
    << [value |-> <<"Metro", " ", "Manila", " ", "1st", " ", "DEO", " ">>,
        count |-> 4] >>

legislativeDistrictData ==
    << [value |-> <<"1st", " ", "District">>, count |-> 2] >>

\* regionData.Region.find(item => item.value === region)?.regCode
regCodeOf(region) ==
    LET found == SelectSeq(regionData, LAMBDA item : item.value = region)
    IN  IF found = <<>> THEN Undefined ELSE found[1].regCode

\* provinceOptions without the entries that have no code (a faulty variant).
provinceOptionsCodedOnly(region) ==
    IF Truthy(region)
    THEN SelectSeq(provinceData,
                     LAMBDA item : item.regCode = regCodeOf(region))
    ELSE provinceData

\* useMemo(() => ..., [filters.Region])
provinceOptions(region) ==
    IF region = NCR
    THEN SelectSeq(provinceData, LAMBDA item : item.regCode = "13")
         \o SelectSeq(provinceData, LAMBDA item : item.regCode = Undefined)
    ELSE IF Truthy(region)
    THEN SelectSeq(provinceData,
                     LAMBDA item : item.regCode = regCodeOf(region))
    ELSE provinceData

\* The imported arrays as the files hold them.
StaticLookups ==
    [InfraYear  |-> infraYearData,
     Region     |-> regionData,
     TypeofWork |-> typeOfWorkData,
     Contractor |-> contractorData]

\* A render of the dashboard page sorts four of the imported arrays in
\* place: infraYearData.InfraYear.sort(...), regionData.Region.sort(...),
\* typeOfWorkData.TypeofWork.sort(...), contractorData.Contractor.sort(...)
RenderSorts(arrays) ==
    [InfraYear  |-> SortBy(arrays.InfraYear,
                      LAMBDA a, b : StringLess(charCodes(a.value),
                                               charCodes(b.value))),
     Region     |-> SortBy(arrays.Region, LAMBDA a, b : b.count - a.count < 0),
     TypeofWork |-> SortBy(arrays.TypeofWork,
                      LAMBDA a, b : b.count - a.count < 0),
     Contractor |-> SortBy(arrays.Contractor,
                      LAMBDA a, b : b.count - a.count < 0)]

\* The options the dropdown of a facet offers in the current render.
DropdownOptions(f) ==
    CASE f = "InfraYear" -> lookups.InfraYear
      [] f = "Region" -> lookups.Region
      [] f = "Province" -> provinceOptions(filters["Region"])
      [] f = "TypeofWork" -> lookups.TypeofWork
      [] f = "DistrictEngineeringOffice" -> deoData
      [] f = "LegislativeDistrict" -> legislativeDistrictData

\* What a click in the dropdown passes to onChange: '' (All) or option.value.
DropdownValues(f) ==
    {Empty} \cup {DropdownOptions(f)[i].value : i \in DOMAIN DropdownOptions(f)}

\* What the user can type in the search box.
SearchInputs == {Empty, <<Space>>, <<"dike">>}

(***************************************************************************)
(* Filter State.                                                           *)
(***************************************************************************)
\* handleFilterChange with the Province reset left out (a faulty variant).
NewFiltersKeepProvince(fs, filterName, value) ==
    [fs EXCEPT ![filterName] = value]

\* handleFilterChange with the other facets cleared (a faulty variant).
NewFiltersClearOthers(fs, filterName, value) ==
    [f \in FacetNames |-> IF f = filterName THEN value ELSE Empty]

\* handleFilterChange that resets the Province only when the Region is
\* cleared (a faulty variant).
NewFiltersResetOnClear(fs, filterName, value) ==
    LET newFilters == [fs EXCEPT ![filterName] = value]
    IN  IF filterName = "Region" /\ value = Empty
        THEN [newFilters EXCEPT !["Province"] = Empty]
        ELSE newFilters

\* const newFilters = {...filters, [filterName]: value};
\* if (filterName === 'Region') newFilters.Province = '';
NewFilters(fs, filterName, value) ==
    LET newFilters == [fs EXCEPT ![filterName] = value]
    IN  IF filterName = "Region"
        THEN [newFilters EXCEPT !["Province"] = Empty]
        ELSE newFilters

\* checkIfFiltersApplied that compares without trimming (a faulty variant).
checkIfFiltersAppliedNoTrim(fs, term) ==
    Truthy(term) \/ \E f \in FacetNames : Truthy(fs[f])

\* checkIfFiltersApplied that always answers true (a faulty variant).
checkIfFiltersAppliedAlways(fs, term) == TRUE

checkIfFiltersApplied(fs, term) ==
    IF Truthy(term) /\ trim(term) # Empty THEN TRUE
    ELSE \E f \in FacetNames : Truthy(fs[f]) /\ trim(fs[f]) # Empty

(***************************************************************************)
(* The filter predicate.                                                   *)
(***************************************************************************)
AndSep == <<" AND ">>
TypeClause == <<"type", " = ", Quote, "flood_control", Quote>>

\* `${field} = "${value.trim()}"`
QuotedClause(field, value) == <<field, " = ", Quote>> \o trim(value) \o <<Quote>>

\* `FundingYear = ${filters.InfraYear.trim()}`
YearClause(value) == <<"FundingYear", " = ">> \o trim(value)

FacetClause(fs, f) ==
    IF Truthy(fs[f]) /\ Truthy(trim(fs[f]))
    THEN << IF f = "InfraYear" THEN YearClause(fs[f])
            ELSE QuotedClause(f, fs[f]) >>
    ELSE <<>>

\* buildFilterString that quotes the year like the other facets (a faulty variant).
buildFilterStringQuotedYear(fs) ==
    join(<<TypeClause>>
         \o (IF Truthy(fs["InfraYear"]) /\ Truthy(trim(fs["InfraYear"]))
             THEN <<QuotedClause("FundingYear", fs["InfraYear"])>> ELSE <<>>)
         \o FacetClause(fs, "Region")
         \o FacetClause(fs, "Province")
         \o FacetClause(fs, "TypeofWork")
         \o FacetClause(fs, "DistrictEngineeringOffice")
         \o FacetClause(fs, "LegislativeDistrict"),
         AndSep)

\* buildFilterString of table.tsx
buildFilterString(fs) ==
    LET filterStrings ==
            <<TypeClause>>
            \o FacetClause(fs, "InfraYear")
            \o FacetClause(fs, "Region")
            \o FacetClause(fs, "Province")
            \o FacetClause(fs, "TypeofWork")
            \o FacetClause(fs, "DistrictEngineeringOffice")
            \o FacetClause(fs, "LegislativeDistrict")
    IN  IF Len(filterStrings) > 0 THEN join(filterStrings, AndSep) ELSE Empty

\* buildFilterString of ./utils, which the dashboard imports: the spec's
\* predicate (one clause per set facet after the fixed type clause).
utilsBuildFilterString(fs) ==
    join(<<TypeClause>>
         \o FacetClause(fs, "InfraYear")
         \o FacetClause(fs, "Region")
         \o FacetClause(fs, "Province")
         \o FacetClause(fs, "TypeofWork")
         \o FacetClause(fs, "DistrictEngineeringOffice")
         \o FacetClause(fs, "LegislativeDistrict"),
         AndSep)

\* getEffectiveSearchTerm
getEffectiveSearchTerm(term) == term

\* The props the page's <Configure> gets in the render after a state change.
ConfigureProps(v, fs, term) ==
    [filters |-> IF v = "table" THEN buildFilterString(fs)
                 ELSE utilsBuildFilterString(fs),
     query   |-> getEffectiveSearchTerm(term)]

(***************************************************************************)
(* Query Facade responses and hit records.                                 *)
(***************************************************************************)
NoResults == [nbHits |-> 0, hits |-> <<>>, answered |-> FALSE]

\* Hit records a response can hold: ContractCost as the index returns it
\* (a numeric string, a non-numeric string, or missing) and Contractor
\* (a name, '' or whitespace only).
HitPool ==
    { [ContractCost |-> "1500", Contractor |-> <<"Acme">>],
      [ContractCost |-> "250",  Contractor |-> <<"Bato", " ", "Corp">>],
      [ContractCost |-> "n/a",  Contractor |-> Empty],
      [ContractCost |-> "",     Contractor |-> <<Space>>] }

Batches == UNION {[1..n -> HitPool] : n \in 0..MaxHits}

\* Total counts larger than the batch that is materialised: the snapshot
\* size and one other value.
LargeCounts == {120, 9855}

\* A response: every match is returned when there are at most MaxHits, and
\* MaxHits of them stand for the batch when there are more.
Responses ==
    {[nbHits |-> Len(b), hits |-> b, answered |-> TRUE] : b \in Batches}
    \cup {[nbHits |-> n, hits |-> b, answered |-> TRUE] :
             n \in LargeCounts, b \in {x \in Batches : Len(x) = MaxHits}}

\* Number(x): the value and whether it is NaN.
Number(text) ==
    CASE text = "1500" -> [nan |-> FALSE, n |-> 1500]
      [] text = "250"  -> [nan |-> FALSE, n |-> 250]
      [] text = ""     -> [nan |-> FALSE, n |-> 0]
      [] OTHER         -> [nan |-> TRUE, n |-> 0]

\* x || 0 on a number: NaN and 0 are falsy.
OrZero(num) == IF num.nan THEN 0 ELSE num.n

\* Number.prototype.toLocaleString: the groups of three digits.
RECURSIVE toLocaleString(_)
toLocaleString(n) ==
    IF n < 1000 THEN <<n>> ELSE toLocaleString(n \div 1000) \o <<n % 1000>>

(***************************************************************************)
(* Dashboard statistics.                                                   *)
(***************************************************************************)
SnapshotTotal == 9855
SnapshotContractors == 2409
\* 547603497105, as toLocaleString shows it
SnapshotCost == <<547, 603, 497, 105>>

defaultStats ==
    [totalProjects     |-> toLocaleString(SnapshotTotal),
     totalCost         |-> SnapshotCost,
     uniqueContractors |-> toLocaleString(SnapshotContractors)]

\* A sum over the first hit only (a faulty variant).
sumCostFirstHitOnly(hits) ==
    IF hits = <<>> THEN 0 ELSE OrZero(Number(Head(hits).ContractCost))

RECURSIVE sumCost(_)
sumCost(hits) ==
    IF hits = <<>> THEN 0
    ELSE OrZero(Number(Head(hits).ContractCost)) + sumCost(Tail(hits))

\* isFiltered that tests only for the snapshot size (a faulty variant).
isFilteredZeroIsLive(totalHits) == totalHits # SnapshotTotal

\* const isFiltered = totalHits !== 0 && totalHits !== defaultStats.totalProjects
isFiltered(totalHits) == totalHits # 0 /\ totalHits # SnapshotTotal

\* DashboardStatistics: what the three cards show for useHits() results.
DashboardStatistics(res) ==
    LET totalHits == res.nbHits
    IN  IF isFiltered(totalHits)
        THEN [totalProjects     |-> toLocaleString(totalHits),
              totalCost         |-> toLocaleString(sumCost(res.hits)),
              uniqueContractors |-> toLocaleString(Cardinality(
                  {res.hits[i].Contractor : i \in
                      {j \in DOMAIN res.hits : Truthy(res.hits[j].Contractor)}}))]
        ELSE defaultStats

\* {filtersApplied ? <InstantSearch>...<DashboardStatistics/> : static cards}
StatisticsPanel(applied, res) ==
    IF applied THEN DashboardStatistics(res)
    ELSE [totalProjects     |-> <<9, 855>>,
          totalCost         |-> <<547, 603, 497, 105>>,
          uniqueContractors |-> <<2, 409>>]

(***************************************************************************)
(* Dashboard charts: the series computed from the hits of a sub-query.     *)
(***************************************************************************)
MaxDistinct == 12   \* distinct facet values in a sample of matching records

\* <Configure hitsPerPage={10000}> above the statistics cards,
\* <Configure hitsPerPage={1000}> above each chart
WidgetHitsPerPage(w) == IF w = "stats" THEN 10000 ELSE 1000

\* The Query Facade's answer to a sub-query that matches `matches`.
FacadeResponse(matches, perPage) ==
    [nbHits |-> Len(matches),
     hits |-> slice(matches, 0, perPage),
     answered |-> TRUE]

ValueName(k) == <<"Value", " ", ToString(k)>>
YearOf(i) == IF i % 2 = 0 THEN <<"2022">> ELSE <<"2021">>

ChartHit(year, v) ==
    [InfraYear |-> year, Region |-> v, TypeofWork |-> v, Contractor |-> v,
     ContractCost |-> "250"]

\* Matching records with d facet values, the k-th held by k records.
Staircase(d) ==
    [i \in 1..((d * (d + 1)) \div 2) |->
        ChartHit(YearOf(i),
                 ValueName(CHOOSE v \in 1..d :
                     (v * (v - 1)) \div 2 < i /\ i <= (v * (v + 1)) \div 2))]

\* Matching records with d facet values, each held by one record.
Flat(d) == [i \in 1..d |-> ChartHit(YearOf(i), ValueName(i))]

\* Matching records with an empty and a whitespace-only facet value.
WithBlanks ==
    Flat(2) \o <<ChartHit(<<"2021">>, Empty), ChartHit(<<"2022">>, <<Space>>)>>

\* One matching record more than the request of a chart returns.
Overflowing ==
    [i \in 1..(WidgetHitsPerPage("yearly") + 1) |->
        ChartHit(YearOf(i), ValueName(1 + (i % 3)))]

MatchSets ==
    {Staircase(d) : d \in {4, 10, MaxDistinct}}
    \cup {<<>>, Flat(MaxDistinct - 1), WithBlanks, Overflowing}

\* Object.entries(frequency) after the forEach over the hits: one entry
\* per counted value, in the order of first occurrence, with the number of
\* hits that hold the value.  The charts of regions, types of work and
\* contractors skip a value whose trim() is ''.
FrequencyEntries(hits, field, trims) ==
    LET Counted(i) == /\ Truthy(hits[i][field])
                      /\ trims => trim(hits[i][field]) # Empty
        firstAt == {i \in DOMAIN hits :
                      /\ Counted(i)
                      /\ \A j \in 1..(i - 1) : hits[j][field] # hits[i][field]}
        m == Cardinality(firstAt)
        nth == SubSeq([k \in 1..m |->
                   CHOOSE i \in firstAt :
                       Cardinality({j \in firstAt : j < i}) = k - 1], 1, m)
    IN  SubSeq([k \in 1..m |->
                 [name |-> hits[nth[k]][field],
                  Projects |-> Cardinality({i \in DOMAIN hits :
                                  hits[i][field] = hits[nth[k]][field]})]],
               1, m)

\* A sort by ascending count (a faulty variant).
SortByProjectsAscending(entries) ==
    SortBy(entries, LAMBDA a, b : a.Projects - b.Projects < 0)

\* .sort((a, b) => b.Projects - a.Projects)
SortByProjects(entries) ==
    SortBy(entries, LAMBDA a, b : b.Projects - a.Projects < 0)

WidgetField(w) ==
    CASE w = "yearly"     -> "InfraYear"
      [] w = "region"     -> "Region"
      [] w = "typeOfWork" -> "TypeofWork"
      [] w = "contractor" -> "Contractor"

\* .map(item => ({name: item.value, Projects: item.count}))
LookupSeries(array) ==
    [i \in DOMAIN array |-> [name |-> array[i].value, Projects |-> array[i].count]]

\* chartData of YearlyChart, RegionChart, TypeOfWorkChart and
\* ContractorChart for useHits() results
chartData(w, res) ==
    IF isFiltered(res.nbHits)
    THEN IF w = "yearly"
         THEN SortBy(FrequencyEntries(res.hits, "InfraYear", FALSE),
                     LAMBDA a, b : StringLess(charCodes(a.name),
                                              charCodes(b.name)))
         ELSE slice(SortByProjects(
                        FrequencyEntries(res.hits, WidgetField(w), TRUE)),
                    0, 10)
    ELSE IF w = "yearly"
         THEN LookupSeries(lookups.InfraYear)
         ELSE LookupSeries(slice(lookups[WidgetField(w)], 0, 10))

\* ResultsStatistics of the table view: the unique-contractor card.
\* new Set(hits.filter(hit => hit.Contractor && hit.Contractor.trim() !== '')
\*             .map(hit => hit.Contractor)).size
ResultsUniqueContractors(hits) ==
    toLocaleString(Cardinality(
        {hits[i].Contractor : i \in
            {j \in DOMAIN hits : /\ Truthy(hits[j].Contractor)
                                 /\ trim(hits[j].Contractor) # Empty}}))

(***************************************************************************)
(* Visa-type detail page: the data and the route parameters.               *)
(***************************************************************************)
\* A sample of data/visa/philippines_visa_types.json: categories with the
\* ids of their visa types.
visaData ==
    << [id |-> "non-immigrant",
        visaTypes |-> << [id |-> "9a"], [id |-> "9g"] >>],
       [id |-> "immigrant",
        visaTypes |-> << [id |-> "13a"] >>] >>

\* useParams().type: an id of the data, an id that is not in the data, or
\* no parameter at all.
RouteParams == {"9a", "9g", "13a", "9z", Undefined}

\* visaData.categories.flatMap(category => category.visaTypes)
allVisaTypes ==
    LET RECURSIVE flat(_)
        flat(categories) ==
            IF categories = <<>> THEN <<>>
            ELSE Head(categories).visaTypes \o flat(Tail(categories))
    IN  flat(visaData)

\* A visa that is null, and the undefined of a find() without a match.
NoVisa == [id |-> Null]
NotFound == [id |-> Undefined]

\* allVisaTypes.find(v => v.id === type)
foundVisa(t) ==
    LET matches == SelectSeq(allVisaTypes, LAMBDA v : v.id = t)
    IN  IF matches = <<>> THEN NotFound ELSE Head(matches)

\* visaData.categories.find(category =>
\*     category.visaTypes.some(v => v.id === type))
visaCategory(t) ==
    LET matches == SelectSeq(visaData, LAMBDA category :
                       \E k \in DOMAIN category.visaTypes :
                           category.visaTypes[k].id = t)
    IN  IF matches = <<>> THEN NotFound ELSE Head(matches)

\* `Visa type "${type}" not found`
NotFoundMessage(t) == <<"Visa type ", Quote, t, Quote, " not found">>

\* The effect with setError(null) left out of the found branch (a faulty
\* variant).
LookupKeepsError(t, state) ==
    IF foundVisa(t) # NotFound
    THEN [state EXCEPT !.visa = foundVisa(t)]
    ELSE [state EXCEPT !.error = NotFoundMessage(t)]

\* The body of the effect on [type]: what it sets visa, selectedCategory
\* and error to.  An error that is null is held as '': the page only
\* tests whether error is truthy.
Lookup(t, state) ==
    IF foundVisa(t) # NotFound
    THEN [visa |-> foundVisa(t),
          selectedCategory |-> IF visaCategory(t) # NotFound
                               THEN visaCategory(t).id
                               ELSE state.selectedCategory,
          error |-> Empty]
    ELSE [state EXCEPT !.error = NotFoundMessage(t)]

\* What VisaTypeDetail returns: the spinner, the error page with the link
\* back to /travel/visa-types, nothing, or the detail page.
VisaTypeDetail ==
    IF loading THEN "loading"
    ELSE IF Truthy(error) THEN "error"
    ELSE IF visa = NoVisa THEN "null"
    ELSE "detail"

(***************************************************************************)
(* Region map explorer: the state of the details panel when closed.        *)
(***************************************************************************)
\* selectedRegion when it is null
NoRegion == [id |-> Null]

(***************************************************************************)
(* Regional LGU page: the route parameters and a run of the effect.        *)
(***************************************************************************)
MaxLoads == 3       \* runs of the effect on [region] in a run

LguRouteParams == {"ncr", "region-i", "car"}

\* regionData when it is null
NoLgu == [region |-> Null]

\* A run of the effect on [region]: let isActive = true; the load it
\* started is awaited.
NewLoad(r) == [region |-> r, isActive |-> TRUE, status |-> "loading"]

(***************************************************************************)
(* State after construction.                                               *)
(***************************************************************************)
Widgets == {"stats", "yearly", "region", "typeOfWork", "contractor"}

SortFields ==
    {"ProjectDescription", "InfraYear", "Region", "Province",
     "Municipality", "TypeofWork", "Contractor", "ContractCost"}

InitFilters == [f \in FacetNames |-> Empty]

NoOp == [op |-> "mount", name |-> "", arg |-> Empty, hadProvince |-> FALSE]

\* The state in which one of `pages` is mounted.
Mounted(pages) ==
    /\ view \in pages
    /\ lookups = IF view = "index" THEN RenderSorts(StaticLookups)
                 ELSE StaticLookups
    /\ filters = InitFilters
    /\ searchTerm = Empty
    /\ filtersApplied = FALSE
    /\ configure = ConfigureProps(view, InitFilters, Empty)
    /\ widget \in (IF view = "index" THEN Widgets ELSE {"none"})
    /\ pending = (view = "table")
    /\ results = NoResults
    /\ sortField = "ProjectDescription"
    /\ sortDirection = "asc"
    /\ currentPage = 0
    /\ sortedHits = <<>>
    /\ isExporting = FALSE
    /\ exports = <<>>
    /\ notices = <<>>
    /\ files = {}
    /\ type \in (IF view = "visa" THEN RouteParams ELSE {Undefined})
    /\ visa = NoVisa
    /\ loading = TRUE
    /\ error = Empty
    /\ selectedCategory = ""
    /\ lookupDue = (view = "visa")
    /\ selectedRegion = NoRegion
    /\ isLoadingDetails = FALSE
    /\ wikipediaCache = <<>>
    /\ clicks = <<>>
    /\ lguRegion \in (IF view = "lgu" THEN LguRouteParams ELSE {Undefined})
    /\ lguRegionData = NoLgu
    /\ lguLoads = IF view = "lgu" THEN <<NewLoad(lguRegion)>> ELSE <<>>
    /\ lastOp = NoOp

Init == Mounted({"index", "table"})

(***************************************************************************)
(* The render that follows a change of the filter state: the dashboard     *)
(* mounts each aggregation widget's <InstantSearch> only while             *)
(* filtersApplied, and a mounted one searches again when the props of its  *)
(* <Configure> change.  The table view's <InstantSearch> is always         *)
(* mounted: it searches at mount and again when the props change.          *)
(***************************************************************************)
Rerender(applied, props) ==
    /\ lookups' = IF view = "index" THEN RenderSorts(lookups) ELSE lookups
    /\ IF view # "index"
       THEN pending' = (pending \/ props # configure) /\ results' = results
       ELSE IF ~applied THEN pending' = FALSE /\ results' = NoResults
       ELSE IF ~filtersApplied THEN pending' = TRUE /\ results' = NoResults
       ELSE IF props # configure THEN pending' = TRUE /\ results' = results
       ELSE UNCHANGED <<pending, results>>

\* handleFilterChange, called by the dropdown of facet filterName
handleFilterChange(filterName, value) ==
    LET newFilters == NewFilters(filters, filterName, value)
        applied == IF view = "index"
                   THEN checkIfFiltersApplied(newFilters, searchTerm)
                   ELSE filtersApplied
        props == ConfigureProps(view, newFilters, searchTerm)
    IN  /\ value \in DropdownValues(filterName)
        /\ filters' = newFilters
        /\ filtersApplied' = applied
        /\ configure' = props
        /\ Rerender(applied, props)
        /\ lastOp' = [op |-> "handleFilterChange", name |-> filterName,
                      arg |-> value, hadProvince |-> Truthy(filters["Province"])]
        /\ UNCHANGED <<view, otherPages, searchTerm, widget, tableVars, exportVars>>

\* handleSearchChange, called by the search box
handleSearchChange(value) ==
    LET applied == IF view = "index"
                   THEN checkIfFiltersApplied(filters, value)
                   ELSE filtersApplied
        props == ConfigureProps(view, filters, value)
    IN  /\ searchTerm' = value
        /\ filtersApplied' = applied
        /\ configure' = props
        /\ Rerender(applied, props)
        /\ lastOp' = [op |-> "handleSearchChange", name |-> "",
                      arg |-> value, hadProvince |-> FALSE]
        /\ UNCHANGED <<view, otherPages, filters, widget, tableVars, exportVars>>

\* The followed widget's sub-query is answered by the Query Facade.
SubQueryResponse(r) ==
    /\ view = "index"
    /\ pending
    /\ results' = r
    /\ pending' = FALSE
    /\ lastOp' = [op |-> "response", name |-> widget, arg |-> Empty,
                  hadProvince |-> FALSE]
    /\ UNCHANGED <<pageVars, filterVars, widget, tableVars, exportVars>>

(***************************************************************************)
(* Table View: the hit records of a response.                              *)
(***************************************************************************)
MaxTableHits  == 3   \* records of a table batch that is enumerated
MaxTablePages == 8   \* pages of the longest table batch
hitsPerPage   == 20

\* Records a table response can hold: a numeric cost, an empty cost, a cost
\* that does not parse; descriptions that differ in case only.
TableHitPool ==
    { [ContractCost |-> "1500", Contractor |-> <<"Acme">>,
       ProjectDescription |-> <<"b">>],
      [ContractCost |-> "250", Contractor |-> <<"Bato", " ", "Corp">>,
       ProjectDescription |-> <<"A">>],
      [ContractCost |-> "n/a", Contractor |-> Empty,
       ProjectDescription |-> <<"a">>],
      [ContractCost |-> "", Contractor |-> <<Space>>,
       ProjectDescription |-> <<"B">>] }

\* The records of a batch carry their primary key.
WithGlobalID(batch) ==
    [i \in DOMAIN batch |->
        [GlobalID           |-> i,
         ContractCost       |-> batch[i].ContractCost,
         Contractor         |-> batch[i].Contractor,
         ProjectDescription |-> batch[i].ProjectDescription]]

EnumeratedBatches ==
    {WithGlobalID(b) : b \in UNION {[1..n -> TableHitPool] : n \in 0..MaxTableHits}}

\* A batch of n records whose costs all parse.
LongBatch(n) ==
    [i \in 1..n |->
        [GlobalID           |-> i,
         ContractCost       |-> IF i % 3 = 0 THEN "1500"
                                ELSE IF i % 3 = 1 THEN "250" ELSE "",
         Contractor         |-> IF i % 2 = 0 THEN <<"Acme">> ELSE <<Space>>,
         ProjectDescription |-> IF i % 4 < 2 THEN <<"b">> ELSE <<"A">>]]

LongSizes ==
    {hitsPerPage, hitsPerPage + 1, 2 * hitsPerPage + 5}
    \cup {(k - 1) * hitsPerPage + 1 : k \in 5..MaxTablePages}

\* <Configure hitsPerPage={1000}>: every match is in the response.
TableResponses ==
    {[nbHits |-> Len(b), hits |-> b, answered |-> TRUE] :
        b \in EnumeratedBatches}

LongResponses ==
    {[nbHits |-> n, hits |-> LongBatch(n), answered |-> TRUE] :
        n \in LongSizes}

(***************************************************************************)
(* Table View: the sort comparator and Array.prototype.sort.               *)
(***************************************************************************)
NaN == [nan |-> TRUE, n |-> 0]
Num(n) == [nan |-> FALSE, n |-> n]

\* parseFloat on the cost texts of the hit records
parseFloat(text) ==
    CASE text = "1500" -> Num(1500)
      [] text = "250"  -> Num(250)
      [] text = "0"    -> Num(0)
      [] OTHER         -> NaN

\* a[sortField] || '0'
CostText(hit) ==
    IF "ContractCost" \in DOMAIN hit /\ hit.ContractCost # ""
    THEN hit.ContractCost ELSE "0"

\* a[sortField]?.toString().toLowerCase() || ''
TextKey(hit, field) ==
    IF field \in DOMAIN hit THEN toLowerCase(charCodes(hit[field])) ELSE <<>>

\* The comparator passed to sort(): a number, or NaN.
compareHits(a, b, field, direction) ==
    IF field = "ContractCost"
    THEN LET costA == parseFloat(CostText(a))
             costB == parseFloat(CostText(b))
         IN  IF costA.nan \/ costB.nan THEN NaN
             ELSE Num(IF direction = "asc" THEN costA.n - costB.n
                      ELSE costB.n - costA.n)
    ELSE LET valueA == TextKey(a, field)
             valueB == TextKey(b, field)
         IN  IF StringLess(valueA, valueB)
             THEN Num(IF direction = "asc" THEN -1 ELSE 1)
             ELSE IF StringLess(valueB, valueA)
             THEN Num(IF direction = "asc" THEN 1 ELSE -1)
             ELSE Num(0)

\* What sort() makes of the comparator's result: NaN counts as +0.
Order(v) == IF v.nan THEN 0 ELSE v.n

\* The stable sort of a batch under a consistent comparator: a record
\* stands after the records the comparator puts before it and after the
\* earlier records it is equal to.
StableSort(hits, field, direction) ==
    LET n == Len(hits)
        Before(i, j) ==
            LET c == Order(compareHits(hits[i], hits[j], field, direction))
            IN  c < 0 \/ (c = 0 /\ i < j)
        rank == SubSeq([i \in 1..n |->
                    1 + Cardinality({j \in 1..n : j # i /\ Before(j, i)})],
                    1, n)
    IN  [k \in 1..n |-> hits[CHOOSE i \in 1..n : rank[i] = k]]

\* The comparator answers NaN on no pair of the batch.
NeverNaN(hits, field) ==
    field # "ContractCost"
    \/ \A i \in DOMAIN hits : ~parseFloat(CostText(hits[i])).nan

\* [...hits].sort(comparator).  With a comparator that never answers NaN
\* the result is the stable sort.  A comparator that answers NaN is not a
\* consistent one and the order is then the engine's choice: an insertion
\* or merge sort leaves every record next to records it was compared
\* with, so neighbours are in comparator order, and in input order where
\* the comparator answered 0.
SortOutcomes(hits, field, direction) ==
    IF NeverNaN(hits, field) THEN {StableSort(hits, field, direction)}
    ELSE {[k \in DOMAIN hits |-> hits[p[k]]] :
            p \in {q \in Permutations(DOMAIN hits) :
                \A k \in 1..(Len(hits) - 1) :
                    LET c == Order(compareHits(hits[q[k]], hits[q[k + 1]],
                                               field, direction))
                    IN  c < 0 \/ (c = 0 /\ q[k] < q[k + 1])}}

(***************************************************************************)
(* Table View: pagination.                                                 *)
(***************************************************************************)
\* Math.ceil(sortedHits.length / hitsPerPage)
totalPages(sorted) == (Len(sorted) + hitsPerPage - 1) \div hitsPerPage

startIndex(page) == page * hitsPerPage
endIndex(sorted, page) == Min(startIndex(page) + hitsPerPage, Len(sorted))

\* A slice that starts one record late (a faulty variant).
paginatedHitsOffByOne(sorted, page) ==
    SubSeq(sorted, startIndex(page) + 2, endIndex(sorted, page))

\* sortedHits.slice(startIndex, endIndex)
paginatedHits(sorted, page) ==
    SubSeq(sorted, startIndex(page) + 1, endIndex(sorted, page))

\* A window that is centred on the current page everywhere (a faulty variant).
pageToShowAlwaysCentred(pages, page, i) == page - 2 + i

\* The page of the i-th page-number button, i in 0..4
pageToShow(pages, page, i) ==
    IF pages <= 5 THEN i
    ELSE IF page < 3 THEN i
    ELSE IF page > pages - 4 THEN pages - 5 + i
    ELSE page - 2 + i

\* The page-number buttons that are rendered, left to right.
PageButtons(pages, page) ==
    IF pages > 1
    THEN SelectSeq([k \in 1..Min(5, pages) |-> pageToShow(pages, page, k - 1)],
                   LAMBDA shown : ~(shown >= pages))
    ELSE <<>>

(***************************************************************************)
(* Table View: sort state.                                                 *)
(***************************************************************************)
\* handleSort that keeps the direction when the field changes (a faulty variant).
SortStateKeepDirection(curField, curDirection, field) ==
    IF curField = field
    THEN [field |-> curField,
          direction |-> IF curDirection = "asc" THEN "desc" ELSE "asc"]
    ELSE [field |-> field, direction |-> curDirection]

\* handleSort: the sort state after a click on the header of `field`
SortState(curField, curDirection, field) ==
    IF curField = field
    THEN [field |-> curField,
          direction |-> IF curDirection = "asc" THEN "desc" ELSE "asc"]
    ELSE [field |-> field, direction |-> "asc"]

handleSort(field) ==
    /\ view = "table"
    /\ sortField' = SortState(sortField, sortDirection, field).field
    /\ sortDirection' = SortState(sortField, sortDirection, field).direction
    /\ UNCHANGED currentPage
    /\ sortedHits' \in SortOutcomes(results.hits, sortField', sortDirection')
    /\ lastOp' = [op |-> "handleSort", name |-> field, arg |-> Empty,
                  hadProvince |-> FALSE]
    /\ UNCHANGED <<pageVars, filterVars, dashVars, exportVars>>

\* The table's query is answered by the Query Facade: TableHits renders
\* with the new hits.
TableQueryResponse(r) ==
    /\ view = "table"
    /\ pending
    /\ results' = r
    /\ pending' = FALSE
    /\ sortedHits' \in SortOutcomes(r.hits, sortField, sortDirection)
    /\ lastOp' = [op |-> "response", name |-> "table", arg |-> Empty,
                  hadProvince |-> FALSE]
    /\ UNCHANGED <<pageVars, filterVars, widget, sortField, sortDirection,
                   currentPage, exportVars>>

\* handlePageChange
handlePageChange(control, selectedPage) ==
    /\ currentPage' = selectedPage
    /\ lastOp' = [op |-> "handlePageChange", name |-> control, arg |-> Empty,
                  hadProvince |-> FALSE]
    /\ UNCHANGED <<pageVars, filterVars, dashVars, sortField, sortDirection,
                   sortedHits, exportVars>>

\* {totalPages > 1 && <nav>...}: the pagination controls are rendered
PaginationShown == view = "table" /\ totalPages(sortedHits) > 1

\* The Previous button: disabled={currentPage === 0}
PreviousPage ==
    /\ PaginationShown
    /\ ~(currentPage = 0)
    /\ handlePageChange("previous", Max(0, currentPage - 1))

\* The Next button: disabled={currentPage >= totalPages - 1}
NextPage ==
    /\ PaginationShown
    /\ ~(currentPage >= totalPages(sortedHits) - 1)
    /\ handlePageChange("next",
          Min(totalPages(sortedHits) - 1, currentPage + 1))

\* The k-th page-number button that is rendered
PageButton(k) ==
    /\ PaginationShown
    /\ k \in DOMAIN PageButtons(totalPages(sortedHits), currentPage)
    /\ handlePageChange("page",
          PageButtons(totalPages(sortedHits), currentPage)[k])

(***************************************************************************)
(* Spec: the filter state of both pages.                                   *)
(***************************************************************************)
Next ==
    \/ \E f \in FacetNames : \E v \in DropdownValues(f) :
          handleFilterChange(f, v)
    \/ \E q \in SearchInputs : handleSearchChange(q)

Spec == Init /\ [][Next]_vars

(***************************************************************************)
(* SpecTable: the table view with its sort state; the facets changed are   *)
(* Region and Province.                                                    *)
(***************************************************************************)
TableFacets == {"Region", "Province"}

InitTable == Init /\ view = "table"

NextTable ==
    \/ \E f \in TableFacets : \E v \in DropdownValues(f) :
          handleFilterChange(f, v)
    \/ \E q \in SearchInputs : handleSearchChange(q)
    \/ \E field \in SortFields : handleSort(field)

SpecTable == InitTable /\ [][NextTable]_vars

(***************************************************************************)
(* SpecHits: the table view with the answer to the query of its mount, a   *)
(* batch of at most MaxTableHits records, and the sort headers.            *)
(***************************************************************************)
NextHits ==
    \/ \E r \in TableResponses : TableQueryResponse(r)
    \/ \E field \in SortFields : handleSort(field)

SpecHits == InitTable /\ [][NextHits]_vars

(***************************************************************************)
(* SpecPaging: the table view with the answer to the query of its mount, a *)
(* batch of one to MaxTablePages pages, the pagination controls, and the   *)
(* sort headers of two columns.                                            *)
(***************************************************************************)
PagingSortFields == {"ProjectDescription", "ContractCost"}

NextPaging ==
    \/ \E r \in LongResponses : TableQueryResponse(r)
    \/ \E field \in PagingSortFields : handleSort(field)
    \/ PreviousPage
    \/ NextPage
    \/ \E k \in 1..5 : PageButton(k)

SpecPaging == InitTable /\ [][NextPaging]_vars

(***************************************************************************)
(* SpecRepaging: the table view with changes of the Region filter, the     *)
(* answers to its queries (batches of one to three pages) and the          *)
(* pagination controls.                                                    *)
(***************************************************************************)
RepagingResponses ==
    {r \in LongResponses : Len(r.hits) <= 2 * hitsPerPage + 5}

NextRepaging ==
    \/ \E v \in DropdownValues("Region") : handleFilterChange("Region", v)
    \/ \E r \in RepagingResponses : TableQueryResponse(r)
    \/ PreviousPage
    \/ NextPage
    \/ \E k \in 1..5 : PageButton(k)

SpecRepaging == InitTable /\ [][NextRepaging]_vars

(***************************************************************************)
(* SpecDashboard: the dashboard with the Query Facade answering the        *)
(* followed widget's sub-query; the facets changed are Region and          *)
(* Province.                                                               *)
(***************************************************************************)
DashboardFacets == {"Region", "Province"}

InitDashboard == Init /\ view = "index"

NextDashboard ==
    \/ \E f \in DashboardFacets : \E v \in DropdownValues(f) :
          handleFilterChange(f, v)
    \/ \E q \in SearchInputs : handleSearchChange(q)
    \/ \E r \in Responses : SubQueryResponse(r)

SpecDashboard == InitDashboard /\ [][NextDashboard]_vars

(***************************************************************************)
(* SpecCharts: the dashboard with the Query Facade answering the followed  *)
(* widget's sub-query with the first hitsPerPage of the matching records;  *)
(* the only facet changed is Region.                                       *)
(***************************************************************************)
ChartFacets == {"Region"}

NextCharts ==
    \/ \E f \in ChartFacets : \E v \in DropdownValues(f) :
          handleFilterChange(f, v)
    \/ \E q \in SearchInputs : handleSearchChange(q)
    \/ \E m \in MatchSets :
          SubQueryResponse(FacadeResponse(m, WidgetHitsPerPage(widget)))

SpecCharts == InitDashboard /\ [][NextCharts]_vars

(***************************************************************************)
(* SpecVisa: the visa-type detail page under changes of its route          *)
(* parameter.                                                              *)
(***************************************************************************)
\* The router renders the page with another :type; the effect on [type]
\* is due after the render.
RouteChange(t) ==
    /\ view = "visa"
    /\ ~lookupDue
    /\ t # type
    /\ type' = t
    /\ lookupDue' = TRUE
    /\ lastOp' = [op |-> "RouteChange", name |-> t, arg |-> Empty,
                  hadProvince |-> FALSE]
    /\ UNCHANGED <<view, FloodPageState, visa, loading, error,
                   selectedCategory, mapVars, lguVars>>

\* useEffect(() => { setLoading(true); try {...} finally
\* { setLoading(false) } }, [type])
VisaLookupEffect ==
    LET after == Lookup(type, [visa |-> visa,
                               selectedCategory |-> selectedCategory,
                               error |-> error])
    IN  /\ view = "visa"
        /\ lookupDue
        /\ visa' = after.visa
        /\ selectedCategory' = after.selectedCategory
        /\ error' = after.error
        /\ loading' = FALSE
        /\ lookupDue' = FALSE
        /\ lastOp' = [op |-> "VisaLookupEffect", name |-> type, arg |-> Empty,
                      hadProvince |-> FALSE]
        /\ UNCHANGED <<view, FloodPageState, type, mapVars, lguVars>>

\* handleCategoryClick, called by a category button of the detail page
handleCategoryClick(categoryId) ==
    /\ view = "visa"
    /\ ~lookupDue
    /\ VisaTypeDetail = "detail"
    /\ selectedCategory' = categoryId
    /\ lastOp' = [op |-> "handleCategoryClick", name |-> categoryId,
                  arg |-> Empty, hadProvince |-> FALSE]
    /\ UNCHANGED <<view, FloodPageState, type, visa, loading, error,
                   lookupDue, mapVars, lguVars>>

InitVisa == Mounted({"visa"})

NextVisa ==
    \/ \E t \in RouteParams : RouteChange(t)
    \/ VisaLookupEffect
    \/ \E k \in DOMAIN visaData : handleCategoryClick(visaData[k].id)

SpecVisa == InitVisa /\ [][NextVisa]_vars

(***************************************************************************)
(* Region map explorer (PhilippinesMap): region clicks, the fetch of the   *)
(* region's description and its cache.  A call of onRegionClick is a       *)
(* record: its region, where it is suspended ("fetch": at await fetch(),   *)
(* "json": at await response.json(), "done": returned), the candidate URL  *)
(* it is at, the number of requests it has issued and what                 *)
(* fetchWikipediaData returned to it.  The continuations that run in       *)
(* microtasks (the return of an async function into its awaiting caller)   *)
(* belong to the step that lets them run.                                  *)
(***************************************************************************)
MaxClicks == 3      \* calls of onRegionClick in a run

\* feature.properties.name of the regions of the map
MapRegions == {"Bicol", "Ilocos"}

\* searchUrls: the number of candidate URLs
SearchUrls == 3

\* wikiData when fetchWikipediaData returns null
NoData == [isNull |-> TRUE, extract |-> Empty, page |-> Empty]

\* What response.json() resolves to for the article at candidate URL u of
\* a region: a summary with its extract and the link of its page.
SummaryOf(regionName, u) ==
    [isNull |-> FALSE,
     extract |-> <<"extract", regionName, u>>,
     page |-> <<"page", regionName, u>>]

\* A cache that is never found to hold a name (a faulty variant).
wikipediaCacheHasNever(regionName) == FALSE

\* wikipediaCache.has(regionName)
wikipediaCacheHas(regionName) == regionName \in DOMAIN wikipediaCache

\* wikipediaCache.set(regionName, data)
wikipediaCacheSet(regionName, data) ==
    [name \in DOMAIN wikipediaCache \cup {regionName} |->
        IF name = regionName THEN data ELSE wikipediaCache[name]]

\* const regionDetails = {id, name, capital, population, loading: true}
\* (capital and population are left out)
regionDetails(regionName) ==
    [id |-> regionName, name |-> regionName, description |-> Empty,
     wikipedia |-> Empty, loading |-> TRUE]

\* prev => ({...prev!, description: wikiData?.extract ||
\*   'No description available.', wikipedia:
\*   wikiData?.content_urls?.desktop?.page, loading: false});
\* {...null} is {}: the object then has no id and no name.
WithDescription(prev, wikiData) ==
    [id |-> IF prev = NoRegion THEN Undefined ELSE prev.id,
     name |-> IF prev = NoRegion THEN Undefined ELSE prev.name,
     description |-> IF Truthy(wikiData.extract) THEN wikiData.extract
                     ELSE <<"No description available.">>,
     wikipedia |-> wikiData.page,
     loading |-> FALSE]

ExceptMap == <<view, FloodPageState, visaVars, lguVars>>

MapOp(op, regionName) ==
    [op |-> op, name |-> regionName, arg |-> Empty, hadProvince |-> FALSE]

\* onRegionClick: the click on a region of the map.  With the name in the
\* cache fetchWikipediaData returns the cached data at once and the
\* handler resumes; otherwise it sets isLoadingDetails and requests the
\* first candidate URL.
onRegionClick(regionName) ==
    /\ view = "map"
    /\ Len(clicks) < MaxClicks
    /\ IF wikipediaCacheHas(regionName)
       THEN /\ clicks' = Append(clicks,
                   [region |-> regionName, pc |-> "done", url |-> 0,
                    requests |-> 0, result |-> wikipediaCache[regionName]])
            /\ selectedRegion' = WithDescription(regionDetails(regionName),
                                                 wikipediaCache[regionName])
            /\ UNCHANGED isLoadingDetails
       ELSE /\ clicks' = Append(clicks,
                   [region |-> regionName, pc |-> "fetch", url |-> 1,
                    requests |-> 1, result |-> NoData])
            /\ selectedRegion' = regionDetails(regionName)
            /\ isLoadingDetails' = TRUE
    /\ lastOp' = MapOp("onRegionClick", regionName)
    /\ UNCHANGED <<ExceptMap, wikipediaCache>>

\* The candidate URL of call i gave nothing (fetch rejected, the response
\* was not ok, or json() rejected): the next candidate is requested, or
\* after the last one fetchWikipediaData returns null, its finally clears
\* isLoadingDetails and onRegionClick resumes.
NextCandidate(i) ==
    IF clicks[i].url < SearchUrls
    THEN /\ clicks' = [clicks EXCEPT ![i].pc = "fetch", ![i].url = @ + 1,
                                      ![i].requests = @ + 1]
         /\ UNCHANGED <<selectedRegion, isLoadingDetails>>
    ELSE /\ clicks' = [clicks EXCEPT ![i].pc = "done", ![i].result = NoData]
         /\ isLoadingDetails' = FALSE
         /\ selectedRegion' = WithDescription(selectedRegion, NoData)

\* await fetch(...) of call i settles: with an ok response the handler
\* goes on to response.json().
FetchSettles(i, ok) ==
    /\ view = "map"
    /\ i \in DOMAIN clicks
    /\ clicks[i].pc = "fetch"
    /\ IF ok
       THEN /\ clicks' = [clicks EXCEPT ![i].pc = "json"]
            /\ UNCHANGED <<selectedRegion, isLoadingDetails>>
       ELSE NextCandidate(i)
    /\ lastOp' = MapOp(IF ok THEN "fetchOk" ELSE "fetchFailed",
                       clicks[i].region)
    /\ UNCHANGED <<ExceptMap, wikipediaCache>>

\* await response.json() of call i resolves: the data is cached and
\* returned, the finally clears isLoadingDetails and onRegionClick resumes.
JsonResolves(i) ==
    LET data == SummaryOf(clicks[i].region, clicks[i].url)
    IN  /\ view = "map"
        /\ i \in DOMAIN clicks
        /\ clicks[i].pc = "json"
        /\ wikipediaCache' = wikipediaCacheSet(clicks[i].region, data)
        /\ clicks' = [clicks EXCEPT ![i].pc = "done", ![i].result = data]
        /\ isLoadingDetails' = FALSE
        /\ selectedRegion' = WithDescription(selectedRegion, data)
        /\ lastOp' = MapOp("fetched", clicks[i].region)
        /\ UNCHANGED ExceptMap

\* await response.json() of call i rejects: the inner catch goes on with
\* the next candidate.
JsonRejects(i) ==
    /\ view = "map"
    /\ i \in DOMAIN clicks
    /\ clicks[i].pc = "json"
    /\ NextCandidate(i)
    /\ lastOp' = MapOp("fetchFailed", clicks[i].region)
    /\ UNCHANGED <<ExceptMap, wikipediaCache>>

\* The close button of the details panel: setSelectedRegion(null)
ClosePanel ==
    /\ view = "map"
    /\ selectedRegion # NoRegion
    /\ selectedRegion' = NoRegion
    /\ lastOp' = MapOp("ClosePanel", "")
    /\ UNCHANGED <<ExceptMap, isLoadingDetails, wikipediaCache, clicks>>

InitMap == Mounted({"map"})

NextMap ==
    \/ \E regionName \in MapRegions : onRegionClick(regionName)
    \/ \E i \in 1..MaxClicks : \E ok \in BOOLEAN : FetchSettles(i, ok)
    \/ \E i \in 1..MaxClicks : JsonResolves(i)
    \/ \E i \in 1..MaxClicks : JsonRejects(i)
    \/ ClosePanel

SpecMap == InitMap /\ [][NextMap]_vars

(***************************************************************************)
(* Regional LGU page (RegionalLGUPage): the effect on [region] loads the   *)
(* region's data.  A change of the route parameter is one step with the    *)
(* cleanup of the previous run of the effect and the start of the next.    *)
(***************************************************************************)
\* A completion that sets regionData whether or not the run is still
\* active (a faulty variant).
SetRegionDataAlways(load, current, data) == data

\* if (isActive) setRegionData(data);
SetRegionDataIfActive(load, current, data) ==
    IF load.isActive THEN data ELSE current

LguOp(op, i) ==
    [op |-> op, name |-> lguLoads[i].region, arg |-> Empty, hadProvince |-> FALSE]

\* The router renders the page with another :region: the cleanup of the
\* previous run sets its isActive to false and the next run starts its
\* load.
LguRouteChange(r) ==
    /\ view = "lgu"
    /\ Len(lguLoads) < MaxLoads
    /\ r # lguRegion
    /\ lguRegion' = r
    /\ lguLoads' = Append([i \in DOMAIN lguLoads |->
                              [lguLoads[i] EXCEPT !.isActive = FALSE]],
                          NewLoad(r))
    /\ lastOp' = [op |-> "LguRouteChange", name |-> r, arg |-> Empty,
                  hadProvince |-> FALSE]
    /\ UNCHANGED <<view, FloodPageState, visaVars, mapVars, lguRegionData>>

\* await loadRegionLgu(region) of run i resolves, with the data of the
\* region or with null for a region that has none.
LoadResolves(i, found) ==
    /\ view = "lgu"
    /\ i \in DOMAIN lguLoads
    /\ lguLoads[i].status = "loading"
    /\ lguRegionData' = SetRegionDataIfActive(lguLoads[i], lguRegionData,
          IF found THEN [region |-> lguLoads[i].region] ELSE NoLgu)
    /\ lguLoads' = [lguLoads EXCEPT ![i].status = "resolved"]
    /\ lastOp' = LguOp("LoadResolves", i)
    /\ UNCHANGED <<view, FloodPageState, visaVars, mapVars, lguRegion>>

\* await loadRegionLgu(region) of run i rejects: the async function ends
\* without setting anything.
LoadRejects(i) ==
    /\ view = "lgu"
    /\ i \in DOMAIN lguLoads
    /\ lguLoads[i].status = "loading"
    /\ lguLoads' = [lguLoads EXCEPT ![i].status = "rejected"]
    /\ lastOp' = LguOp("LoadRejects", i)
    /\ UNCHANGED <<view, FloodPageState, visaVars, mapVars, lguRegion,
                   lguRegionData>>

InitLgu == Mounted({"lgu"})

NextLgu ==
    \/ \E r \in LguRouteParams : LguRouteChange(r)
    \/ \E i \in 1..MaxLoads : \E found \in BOOLEAN : LoadResolves(i, found)
    \/ \E i \in 1..MaxLoads : LoadRejects(i)

SpecLgu == InitLgu /\ [][NextLgu]_vars

(***************************************************************************)
(* Export Pipeline.                                                        *)
(***************************************************************************)
\* An export button that is never disabled (a faulty variant).
ExportButtonNeverDisabled == FALSE

\* <Button onClick={handleExportData} disabled={isExporting}>
ExportButtonDisabled == isExporting

\* A handler that alerts the failure twice (a faulty variant).
ExportNoticesTwiceOnError(status) ==
    IF status = "resolved" THEN <<"success">> ELSE <<"error", "error">>

\* try { await export; alert(success) } catch { alert(error) }
ExportNotices(status) ==
    IF status = "resolved" THEN <<"success">> ELSE <<"error">>

\* A handler that resets the flag after the success alert only (a faulty variant).
IsExportingAfterOnlyOnSuccess(status) == status # "resolved"

\* finally { setIsExporting(false) }
IsExportingAfter(status) == FALSE

exportFilename == IF view = "table" THEN "flood-control-projects-table"
                  ELSE "flood-control-projects-visual"

Unfinished == {i \in DOMAIN exports : exports[i].status # "done"}

\* An export of everything, whatever the filter state (a faulty variant).
ExportRequestUnfiltered(v, fs, term) ==
    [filters    |-> IF v = "table" THEN buildFilterString(InitFilters)
                    ELSE utilsBuildFilterString(InitFilters),
     searchTerm |-> Empty]

\* const filterString = buildFilterString(filters);
\* const effectiveSearchTerm = getEffectiveSearchTerm();
ExportRequest(v, fs, term) ==
    [filters    |-> IF v = "table" THEN buildFilterString(fs)
                    ELSE utilsBuildFilterString(fs),
     searchTerm |-> getEffectiveSearchTerm(term)]

\* exportMeilisearchData with a failed page requested again (a faulty
\* variant).
AfterPageFailureRetried(e) ==
    [e EXCEPT !.requested = Append(@, e.fetched + 1)]

\* exportMeilisearchData: the page in flight fails; no page is requested
\* any more and the promise rejects.
AfterPageFailure(e) == [e EXCEPT !.status = "rejected"]

\* exportMeilisearchData: the page in flight succeeds; the next page is
\* requested unless this was the last one.
AfterPageSuccess(e, isLast) ==
    [e EXCEPT !.fetched = @ + 1,
              !.status = IF isLast THEN "resolved" ELSE @,
              !.requested = IF isLast THEN @ ELSE Append(@, e.fetched + 2)]

\* handleExportData up to its await: the click on the export button; the
\* export pipeline requests the first page.
handleExportData ==
    /\ view \in {"index", "table"}
    /\ ~ExportButtonDisabled
    /\ Len(exports) < MaxExports
    /\ isExporting' = TRUE
    /\ exports' = Append(exports,
          [status     |-> "fetching",
           filters    |-> ExportRequest(view, filters, searchTerm).filters,
           searchTerm |-> ExportRequest(view, filters, searchTerm).searchTerm,
           filename   |-> exportFilename,
           fetched    |-> 0,
           requested  |-> <<1>>])
    /\ lastOp' = [op |-> "handleExportData", name |-> "", arg |-> Empty,
                  hadProvince |-> FALSE]
    /\ UNCHANGED <<pageVars, filterVars, dashVars, tableVars, notices, files>>

\* exportMeilisearchData: the page in flight is retrieved; after the last
\* page the accumulated records are written to one file and the promise
\* resolves.
ExportPageSucceeds(i, isLast) ==
    /\ i \in DOMAIN exports
    /\ exports[i].status = "fetching"
    /\ exports[i].fetched < MaxPages
    /\ isLast \/ exports[i].fetched + 1 < MaxPages
    /\ exports' = [exports EXCEPT ![i] = AfterPageSuccess(@, isLast)]
    /\ files' = IF isLast
                THEN files \cup {[export |-> i,
                                  filename |-> exports[i].filename,
                                  pages |-> exports[i].fetched + 1]}
                ELSE files
    /\ lastOp' = [op |-> "exportPage", name |-> "ok", arg |-> Empty,
                  hadProvince |-> FALSE]
    /\ UNCHANGED <<pageVars, filterVars, dashVars, tableVars, isExporting, notices>>

\* exportMeilisearchData: the retrieval of the page in flight fails; the
\* records accumulated so far are discarded and the promise rejects.
ExportPageFails(i) ==
    /\ i \in DOMAIN exports
    /\ exports[i].status = "fetching"
    /\ exports' = [exports EXCEPT ![i] = AfterPageFailure(@)]
    /\ lastOp' = [op |-> "exportPage", name |-> "failed", arg |-> Empty,
                  hadProvince |-> FALSE]
    /\ UNCHANGED <<pageVars, filterVars, dashVars, tableVars, isExporting,
                   notices, files>>

RECURSIVE NoticesOf(_, _)
NoticesOf(i, kinds) ==
    IF kinds = <<>> THEN <<>>
    ELSE <<[export |-> i, kind |-> Head(kinds)]>> \o NoticesOf(i, Tail(kinds))

\* handleExportData after its await: the alert, then the finally block
ExportHandlerResumes(i) ==
    /\ i \in DOMAIN exports
    /\ exports[i].status \in {"resolved", "rejected"}
    /\ notices' = notices \o NoticesOf(i, ExportNotices(exports[i].status))
    /\ isExporting' = IsExportingAfter(exports[i].status)
    /\ exports' = [exports EXCEPT
          ![i].status = "done",
          ![i].filters = Empty,
          ![i].searchTerm = Empty]
    /\ lastOp' = [op |-> "exportFinished", name |-> exports[i].status,
                  arg |-> Empty, hadProvince |-> FALSE]
    /\ UNCHANGED <<pageVars, filterVars, dashVars, tableVars, files>>

(***************************************************************************)
(* SpecExport: the export handler of both pages; the only                  *)
(* facet changed is Region.  SpecExportFair adds that a handler suspended  *)
(* at its await resumes once the promise has settled.                      *)
(***************************************************************************)
ExportFacets == {"Region"}

InitExport == Init /\ widget \in {"stats", "none"}

NextExport ==
    \/ \E f \in ExportFacets : \E v \in DropdownValues(f) :
          handleFilterChange(f, v)
    \/ \E q \in SearchInputs : handleSearchChange(q)
    \/ handleExportData
    \/ \E i \in 1..MaxExports : \E isLast \in BOOLEAN :
          ExportPageSucceeds(i, isLast)
    \/ \E i \in 1..MaxExports : ExportPageFails(i)
    \/ \E i \in 1..MaxExports : ExportHandlerResumes(i)

SpecExport == InitExport /\ [][NextExport]_vars

SpecExportFair ==
    /\ InitExport
    /\ [][NextExport]_vars
    /\ WF_vars(\E i \in 1..MaxExports : ExportHandlerResumes(i))

(***************************************************************************)
(* Properties.                                                             *)
(***************************************************************************)
IsSet(value) == value # Empty
NonBlank(value) == \E i \in DOMAIN value : value[i] # Space
SetFacets == {f \in FacetNames : IsSet(filters[f])}
OtherFacetsKept(changed) ==
    \A g \in FacetNames \ changed : filters'[g] = filters[g]

\* C1: right after handleFilterChange('Region', R), for any R, Province is
\* unset, in the dashboard and in the table view.
C1_RegionClearsProvince ==
    (lastOp.op = "handleFilterChange" /\ lastOp.name = "Region")
        => filters["Province"] = Empty

\* A Region was chosen while a Province was selected, and Province is unset.
C1_Witness ==
    /\ lastOp.op = "handleFilterChange"
    /\ lastOp.name = "Region"
    /\ lastOp.hadProvince
    /\ IsSet(filters["Region"])
    /\ filters["Province"] = Empty

\* The clauses of a predicate: its text between the AND separators.
RECURSIVE SplitClauses(_, _)
SplitClauses(text, clause) ==
    IF text = <<>> THEN <<clause>>
    ELSE IF Head(text) = AndSep[1]
    THEN <<clause>> \o SplitClauses(Tail(text), <<>>)
    ELSE SplitClauses(Tail(text), Append(clause, Head(text)))

PredicateField(f) == IF f = "InfraYear" THEN "FundingYear" ELSE f

\* C2: the predicate the table view builds is the fixed type clause and one
\* equality clause per set facet, none for an unset facet, joined by AND;
\* the year value is unquoted and every other facet value is quoted.
C2_PredicateClauses ==
    view = "table" =>
        LET clauses == SplitClauses(configure.filters, <<>>)
            ClausesOf(field) ==
                {i \in DOMAIN clauses :
                    clauses[i] # <<>> /\ clauses[i][1] = field}
        IN  /\ Len(clauses) = 1 + Cardinality(SetFacets)
            /\ Cardinality(ClausesOf("type")) = 1
            /\ \E i \in DOMAIN clauses : clauses[i] = TypeClause
            /\ \A f \in FacetNames \ SetFacets :
                  ClausesOf(PredicateField(f)) = {}
            /\ \A f \in SetFacets :
                  /\ Cardinality(ClausesOf(PredicateField(f))) = 1
                  /\ \A i \in ClausesOf(PredicateField(f)) :
                        clauses[i] =
                            IF f = "InfraYear"
                            THEN <<"FundingYear", " = ">> \o trim(filters[f])
                            ELSE <<f, " = ", Quote>> \o trim(filters[f])
                                 \o <<Quote>>

\* The table view with the year, a region and an office selected and the
\* type of work left unset.
C2_Witness ==
    /\ view = "table"
    /\ IsSet(filters["InfraYear"])
    /\ IsSet(filters["Region"])
    /\ IsSet(filters["DistrictEngineeringOffice"])
    /\ filters["TypeofWork"] = Empty
    /\ Len(SplitClauses(configure.filters, <<>>)) = 4

\* C3: handleFilterChange(f, v) for f other than Region sets f to v and
\* leaves the other five facets and the query as they were; for Region it
\* changes Region and Province only; handleSearchChange sets the query and
\* leaves the six facets as they were.
C3_FrameOfSet ==
    [][ /\ lastOp'.op = "handleFilterChange" =>
              /\ filters'[lastOp'.name] = lastOp'.arg
              /\ searchTerm' = searchTerm
              /\ IF lastOp'.name = "Region"
                 THEN OtherFacetsKept({"Region", "Province"})
                 ELSE OtherFacetsKept({lastOp'.name})
        /\ lastOp'.op = "handleSearchChange" =>
              /\ searchTerm' = lastOp'.arg
              /\ filters' = filters ]_vars

\* The type of work was just chosen with a region, a province and a query
\* in place, and they are still in place.
C3_Witness ==
    /\ lastOp.op = "handleFilterChange"
    /\ lastOp.name = "TypeofWork"
    /\ IsSet(filters["TypeofWork"])
    /\ IsSet(filters["Region"])
    /\ IsSet(filters["Province"])
    /\ IsSet(searchTerm)

\* C4 as stated: in the dashboard filtersApplied is true exactly when the
\* query is non-empty or a facet is set.
C4_AsStated ==
    view = "index" =>
        (filtersApplied <=> (IsSet(searchTerm) \/ SetFacets # {}))

\* C4, amended: in the dashboard filtersApplied is true exactly when the
\* query or the value of some facet holds a non-whitespace character.
C4_FiltersAppliedNonBlank ==
    view = "index" =>
        (filtersApplied <=>
            (NonBlank(searchTerm)
             \/ \E f \in FacetNames : NonBlank(filters[f])))

\* The dashboard after a whitespace-only query was typed with no facet set.
C4_Witness ==
    /\ view = "index"
    /\ lastOp.op = "handleSearchChange"
    /\ searchTerm = <<Space>>
    /\ SetFacets = {}
    /\ ~filtersApplied

\* C5: whenever a filter is applied in the dashboard and the statistics
\* sub-query has been answered, the cards show the live figures: the total
\* is the response's total count and the cost is the sum over its hits.
C5_LiveStatistics ==
    (/\ view = "index"
     /\ widget = "stats"
     /\ filtersApplied
     /\ ~pending
     /\ results.answered)
        => /\ StatisticsPanel(filtersApplied, results).totalProjects
                = toLocaleString(results.nbHits)
           /\ StatisticsPanel(filtersApplied, results).totalCost
                = toLocaleString(sumCost(results.hits))

NoFilterActive == searchTerm = Empty /\ SetFacets = {}

\* C6: with every facet unset and no search term the dashboard shows the
\* snapshot totals 9,855, 547,603,497,105 and 2,409, and no aggregation
\* sub-query (statistics or chart) is in flight or answered.
C6_SnapshotWhenUnfiltered ==
    (view = "index" /\ NoFilterActive) =>
        /\ StatisticsPanel(filtersApplied, results) =
              [totalProjects     |-> <<9, 855>>,
               totalCost         |-> <<547, 603, 497, 105>>,
               uniqueContractors |-> <<2, 409>>]
        /\ ~filtersApplied
        /\ ~pending
        /\ results = NoResults

\* The dashboard after the last set facet was cleared again.
C6_Witness ==
    /\ view = "index"
    /\ NoFilterActive
    /\ lastOp.op = "handleFilterChange"
    /\ lastOp.arg = Empty
    /\ lastOp.name = "Region"

\* C7: at most one export is unfinished at any time, and while one is
\* unfinished isExporting is true and the export button is disabled.
C7_OneExportAtATime ==
    /\ Cardinality(Unfinished) <= 1
    /\ Unfinished # {} => (isExporting /\ ExportButtonDisabled)

\* A second export is fetching after the first one finished.
C7_Witness ==
    /\ Len(exports) = 2
    /\ exports[1].status = "done"
    /\ exports[2].status = "fetching"
    /\ isExporting

\* C8: an export whose retrieval has settled, resolved or rejected, is
\* eventually followed by isExporting = false, and the flag is false when
\* the handler has just finished on either path.
C8_FlagAlwaysReset ==
    /\ [](lastOp.op = "exportFinished" => ~isExporting)
    /\ \A i \in 1..MaxExports :
          (i \in DOMAIN exports /\ exports[i].status \in {"resolved", "rejected"})
              ~> ~isExporting

\* The handler has just finished an export that was rejected.
C8_Witness ==
    /\ lastOp.op = "exportFinished"
    /\ lastOp.name = "rejected"
    /\ ~isExporting

NoticesFor(i) == SelectSeq(notices, LAMBDA n : n.export = i)
FilesFor(i) == {f \in files : f.export = i}

\* C9: a finished export has shown exactly one notice, the success notice
\* if it resolved and the failure notice if it rejected; an unfinished one
\* has shown none; an export whose retrieval failed has written no file.
C9_OneNoticePerExport ==
    \A i \in DOMAIN exports :
        /\ exports[i].status = "done" =>
              /\ Len(NoticesFor(i)) = 1
              /\ NoticesFor(i)[1].kind =
                    (IF FilesFor(i) # {} THEN "success" ELSE "error")
        /\ exports[i].status # "done" => NoticesFor(i) = <<>>
        /\ exports[i].status = "rejected" => FilesFor(i) = {}
        /\ Cardinality(FilesFor(i)) <= 1

\* An export finished after its second page failed: one failure notice and
\* no file.
C9_Witness ==
    \E i \in DOMAIN exports :
        /\ exports[i].status = "done"
        /\ exports[i].fetched = 1
        /\ FilesFor(i) = {}
        /\ NoticesFor(i) = <<[export |-> i, kind |-> "error"]>>

\* C10: the table starts sorted by ProjectDescription, ascending, on page
\* 0; a click on the header of the current sort field toggles the
\* direction, a click on another header makes it the sort field, ascending.
C10_SortStateMachine ==
    /\ (sortField = "ProjectDescription" /\ sortDirection = "asc"
        /\ currentPage = 0)
    /\ [][ lastOp'.op = "handleSort" =>
              IF lastOp'.name = sortField
              THEN /\ sortField' = sortField
                   /\ sortDirection' # sortDirection
                   /\ sortDirection' \in {"asc", "desc"}
              ELSE /\ sortField' = lastOp'.name
                   /\ sortDirection' = "asc" ]_vars

\* The cost header was clicked twice: sorted by cost, descending.
C10_Witness ==
    /\ lastOp.op = "handleSort"
    /\ sortField = "ContractCost"
    /\ sortDirection = "desc"

\* The cost a record sorts by: its parsed cost, 0 when it does not parse.
CostOrZero(hit) == OrZero(parseFloat(CostText(hit)))

\* a comes strictly before b in ascending order of the sort field.
KeyLess(a, b) ==
    IF sortField = "ContractCost" THEN CostOrZero(a) < CostOrZero(b)
    ELSE StringLess(TextKey(a, sortField), TextKey(b, sortField))

\* a may stand right before b: their keys are in the order of the sort
\* direction, and in input order when the keys are equal.
InSortOrder(a, b) ==
    /\ IF sortDirection = "asc" THEN ~KeyLess(b, a) ELSE ~KeyLess(a, b)
    /\ (~KeyLess(a, b) /\ ~KeyLess(b, a)) => a.GlobalID < b.GlobalID

\* The rows are the records of the response, each once.
RowsAreTheHits ==
    /\ Len(sortedHits) = Len(results.hits)
    /\ {sortedHits[k].GlobalID : k \in DOMAIN sortedHits} = DOMAIN results.hits
    /\ \A k \in DOMAIN sortedHits :
          sortedHits[k] = results.hits[sortedHits[k].GlobalID]

\* C11: the rows of the table are the hits ordered by cost as a number,
\* with a cost that does not parse counted as 0, when the sort field is the
\* cost, and by the lower-cased text of the sort field otherwise; records
\* with equal keys are in input order.
C11_SortComparator ==
    (view = "table" /\ results.answered) =>
        /\ RowsAreTheHits
        /\ \A k \in 1..(Len(sortedHits) - 1) :
              InSortOrder(sortedHits[k], sortedHits[k + 1])

\* The rows with the order of the groups of equal cost reversed and the
\* order inside each group kept.
RECURSIVE ReverseKeepingTies(_)
ReverseKeepingTies(rows) ==
    IF rows = <<>> THEN <<>>
    ELSE LET same == {k \in DOMAIN rows :
                        \A j \in 1..k : CostOrZero(rows[j]) = CostOrZero(rows[1])}
             run == Cardinality(same)
         IN  ReverseKeepingTies(SubSeq(rows, run + 1, Len(rows)))
             \o SubSeq(rows, 1, run)

\* C12: a click on the cost header while the table is sorted by cost,
\* ascending, shows the rows in the reverse order, records of equal cost
\* keeping their input order.
C12_AscThenDescReverses ==
    [][ (/\ view = "table"
         /\ results.answered
         /\ sortField = "ContractCost"
         /\ sortDirection = "asc"
         /\ lastOp'.op = "handleSort"
         /\ lastOp'.name = "ContractCost")
        => sortedHits' = ReverseKeepingTies(sortedHits) ]_vars

\* C13: with n >= 1 sorted records the current page p is one of
\* 0..ceil(n/20)-1 and the rows shown are the records p*20+1 ..
\* min(p*20+20, n); with 45 records page 0 shows 20 rows and page 2 shows 5.
C13_PageSlice ==
    (view = "table" /\ Len(sortedHits) >= 1) =>
        LET n == Len(sortedHits)
            p == currentPage
            shown == paginatedHits(sortedHits, currentPage)
            last == IF p * 20 + 20 < n THEN p * 20 + 20 ELSE n
        IN  /\ p >= 0
            /\ p * 20 < n
            /\ Len(shown) = last - p * 20
            /\ \A k \in 1..Len(shown) : shown[k] = sortedHits[p * 20 + k]
            /\ (n = 45 /\ p = 0) => Len(shown) = 20
            /\ (n = 45 /\ p = 2) => (Len(shown) = 5 /\ shown[5] = sortedHits[45])

\* 45 records, and a click has led to page 2, which shows records 41-45.
C13_Witness ==
    /\ view = "table"
    /\ Len(sortedHits) = 45
    /\ lastOp.op = "handlePageChange"
    /\ currentPage = 2
    /\ paginatedHits(sortedHits, currentPage) = SubSeq(sortedHits, 41, 45)

\* The window the text describes for `pages` pages and current page `page`:
\* min(5, pages) consecutive pages that start at page-2, at 0 near the
\* first page and at pages-5 near the last one.
WindowAsDescribed(pages, page) ==
    LET first == IF page <= 2 THEN 0
                 ELSE IF page >= pages - 3
                 THEN (IF pages > 5 THEN pages - 5 ELSE 0)
                 ELSE page - 2
    IN  [k \in 1..(IF pages < 5 THEN pages ELSE 5) |-> first + k - 1]

WindowIsRight(pages, page) ==
    LET window == PageButtons(pages, page)
    IN  /\ window = WindowAsDescribed(pages, page)
        /\ \A k \in DOMAIN window : window[k] \in 0..(pages - 1)
        /\ \E k \in DOMAIN window : window[k] = page

\* C14 as stated: for every number of pages >= 1 and current page in range
\* the page-number buttons shown are the described window.
C14_AsStated ==
    (/\ view = "table"
     /\ totalPages(sortedHits) >= 1
     /\ currentPage \in 0..(totalPages(sortedHits) - 1))
        => WindowIsRight(totalPages(sortedHits), currentPage)

\* C14, amended: for every number of pages >= 2 and current page in range
\* the page-number buttons shown are the described window; with one page
\* no page-number button is shown.
C14_PageWindow ==
    (/\ view = "table"
     /\ currentPage \in 0..(totalPages(sortedHits) - 1))
        => IF totalPages(sortedHits) >= 2
           THEN WindowIsRight(totalPages(sortedHits), currentPage)
           ELSE PageButtons(totalPages(sortedHits), currentPage) = <<>>

\* Eight pages and the current page is 4: the buttons are pages 2..6.
C14_Witness ==
    /\ view = "table"
    /\ totalPages(sortedHits) = 8
    /\ lastOp.op = "handlePageChange"
    /\ currentPage = 4
    /\ PageButtons(8, currentPage) = <<2, 3, 4, 5, 6>>

\* The cards of the dashboard show figures computed from the live hits.
LiveStatisticsShown ==
    /\ view = "index"
    /\ widget = "stats"
    /\ filtersApplied
    /\ results.answered
    /\ results.nbHits # 0
    /\ results.nbHits # 9855

\* The distinct contractor names of the hits that hold a non-whitespace
\* character.
NonBlankContractors(hits) ==
    {hits[i].Contractor : i \in {j \in DOMAIN hits : NonBlank(hits[j].Contractor)}}

\* C15: the unique-contractor card, of the dashboard when it shows live
\* figures and of the table view, shows the number of distinct contractor
\* names of the hits that are not blank or whitespace only.
C15_UniqueContractors ==
    /\ LiveStatisticsShown =>
          StatisticsPanel(filtersApplied, results).uniqueContractors
              = <<Cardinality(NonBlankContractors(results.hits))>>
    /\ (view = "table" /\ results.answered) =>
          ResultsUniqueContractors(results.hits)
              = <<Cardinality(NonBlankContractors(results.hits))>>

\* The cost a hit adds to the total: its numeric cost, 0 when the cost is
\* missing or not a number.
CostOfHit(hit) ==
    IF hit.ContractCost = "1500" THEN 1500
    ELSE IF hit.ContractCost = "250" THEN 250
    ELSE 0

\* The costs of the first k hits, added up.
RECURSIVE CostOfFirst(_, _)
CostOfFirst(hits, k) ==
    IF k = 0 THEN 0 ELSE CostOfFirst(hits, k - 1) + CostOfHit(hits[k])

\* C17: when the dashboard shows live figures the total-cost card shows
\* the sum of the costs of the retrieved hits, a missing or non-numeric
\* cost adding 0.
C17_CostIsExactSum ==
    LiveStatisticsShown =>
        StatisticsPanel(filtersApplied, results).totalCost
            = toLocaleString(CostOfFirst(results.hits, Len(results.hits)))

\* Live figures over two hits, one with the cost 1500 and one whose cost
\* is not a number: the card shows 1,500.
C17_Witness ==
    /\ LiveStatisticsShown
    /\ lastOp.op = "response"
    /\ Len(results.hits) = 2
    /\ results.hits[1].ContractCost = "1500"
    /\ results.hits[2].ContractCost = "n/a"
    /\ StatisticsPanel(filtersApplied, results).totalCost = <<1, 500>>

\* The entries of the Province lookup with one of the given codes.
ProvincesWithCode(codes) ==
    {provinceData[i] : i \in {j \in DOMAIN provinceData :
                                provinceData[j].regCode \in codes}}

\* C19: in both views the options of the Province dropdown are, each once:
\* for Region = National Capital Region the lookup entries with code "13"
\* and those with no code; for another Region the entries with the code of
\* that Region's lookup entry; with no Region all entries.
C19_ProvinceOptions ==
    LET options == DropdownOptions("Province")
        offered == {options[i] : i \in DOMAIN options}
        region == filters["Region"]
    IN  /\ Len(options) = Cardinality(offered)
        /\ offered =
              IF region = <<"National", " ", "Capital", " ", "Region">>
              THEN ProvincesWithCode({"13", Undefined})
              ELSE IF region # Empty
              THEN ProvincesWithCode(
                      {regionData[i].regCode : i \in
                          {j \in DOMAIN regionData : regionData[j].value = region}})
              ELSE {provinceData[i] : i \in DOMAIN provinceData}

\* National Capital Region was just chosen: the options are Metro Manila
\* and the entry with no code.
C19_Witness ==
    /\ lastOp.op = "handleFilterChange"
    /\ lastOp.name = "Region"
    /\ filters["Region"] = NCR
    /\ Len(DropdownOptions("Province")) = 2
    /\ DropdownOptions("Province")[1].value = <<"Metro", " ", "Manila">>
    /\ DropdownOptions("Province")[2].regCode = Undefined

\* C20: in every state the arrays of the InfraYear, Region, TypeofWork and
\* Contractor lookups hold the entries of the loaded files in the order of
\* the files, and the dropdowns offer them in that order.
C20_LookupsReadOnly ==
    /\ lookups.InfraYear = infraYearData
    /\ lookups.Region = regionData
    /\ lookups.TypeofWork = typeOfWorkData
    /\ lookups.Contractor = contractorData
    /\ DropdownOptions("InfraYear") = infraYearData
    /\ DropdownOptions("Region") = regionData
    /\ DropdownOptions("TypeofWork") = typeOfWorkData

\* A top-10 chart shows a series computed from the live hits.
LiveTopTenShown ==
    /\ view = "index"
    /\ widget \in {"region", "typeOfWork", "contractor"}
    /\ filtersApplied
    /\ results.answered
    /\ results.nbHits # 0
    /\ results.nbHits # 9855

SeriesField ==
    IF widget = "region" THEN "Region"
    ELSE IF widget = "typeOfWork" THEN "TypeofWork" ELSE "Contractor"

\* The distinct non-blank values of the chart's field among the hits.
CountedValues ==
    {results.hits[i][SeriesField] : i \in
        {j \in DOMAIN results.hits : NonBlank(results.hits[j][SeriesField])}}

CountOf(v) ==
    Cardinality({i \in DOMAIN results.hits : results.hits[i][SeriesField] = v})

DistinctFrequencies ==
    \A u \in CountedValues : \A v \in CountedValues \ {u} : CountOf(u) # CountOf(v)

TenStrictlyDescending(series) ==
    /\ Len(series) = 10
    /\ \A k \in 1..9 : series[k].Projects > series[k + 1].Projects

RECURSIVE SumProjects(_)
SumProjects(series) ==
    IF series = <<>> THEN 0
    ELSE Head(series).Projects + SumProjects(Tail(series))

\* C18: when a filter that matches at most 10,000 records is active and a
\* live aggregation is shown, it is computed over all the matching
\* records: the statistics cards over as many hits as the total count, and
\* the counts of the by-year series add up to the total count.
C18_SameRecords ==
    (/\ view = "index"
     /\ widget \in {"stats", "yearly"}
     /\ filtersApplied
     /\ results.answered
     /\ results.nbHits # 0
     /\ results.nbHits # 9855
     /\ results.nbHits <= 10000)
        => IF widget = "yearly"
           THEN SumProjects(chartData("yearly", results)) = results.nbHits
           ELSE Len(results.hits) = results.nbHits

\* The pages of export i whose request has been sent and has neither
\* succeeded nor failed.
PagesInFlight(i) ==
    IF exports[i].status = "fetching"
    THEN {exports[i].requested[k] : k \in DOMAIN exports[i].requested}
         \ (1..exports[i].fetched)
    ELSE {}

\* C22: the pages of an export are requested one after the other, each
\* once: the k-th request is for page k, page k+1 is requested only when
\* pages 1..k have succeeded, at most one page request is in flight at any
\* moment, and after a failed page no page is requested again.
C22_SequentialFetch ==
    /\ Cardinality(UNION {PagesInFlight(i) : i \in DOMAIN exports}) <= 1
    /\ \A i \in DOMAIN exports :
          /\ \A k \in DOMAIN exports[i].requested : exports[i].requested[k] = k
          /\ Len(exports[i].requested) <= exports[i].fetched + 1
          /\ exports[i].status = "fetching" =>
                PagesInFlight(i) = {exports[i].fetched + 1}
          /\ exports[i].status = "rejected" =>
                Len(exports[i].requested) = exports[i].fetched + 1

\* The second page of an export has failed after the first succeeded: two
\* pages were requested and none is in flight.
C22_Witness ==
    /\ lastOp.op = "exportPage"
    /\ lastOp.name = "failed"
    /\ \E i \in DOMAIN exports :
          /\ exports[i].status = "rejected"
          /\ exports[i].fetched = 1
          /\ exports[i].requested = <<1, 2>>
          /\ PagesInFlight(i) = {}

\* The ids of the visa types in the data.
VisaIds ==
    UNION {{visaData[c].visaTypes[k].id : k \in DOMAIN visaData[c].visaTypes} :
              c \in DOMAIN visaData}

\* C23: once the lookup effect has run for the current route parameter,
\* loading is false, and the page is the not-found error page (with the
\* link back to the listing) exactly when the parameter is the id of no
\* visa type; otherwise it is the detail page of the visa whose id is the
\* parameter, with no error.
C23_VisaLookup ==
    (view = "visa" /\ ~lookupDue) =>
        /\ loading = FALSE
        /\ IF type \in VisaIds
           THEN /\ VisaTypeDetail = "detail"
                /\ error = Empty
                /\ visa.id = type
           ELSE /\ VisaTypeDetail = "error"
                /\ error = <<"Visa type ", Quote, type, Quote, " not found">>

\* The error page for a parameter that matches no visa type, reached
\* from the detail page of a visa: the visa found earlier is still held
\* and the error page is what shows.
C23_Witness ==
    /\ view = "visa"
    /\ lastOp.op = "VisaLookupEffect"
    /\ type = "9z"
    /\ visa.id = "9a"
    /\ loading = FALSE
    /\ VisaTypeDetail = "error"

\* C25: in the table view currentPage is a page of the batch that is
\* displayed (0, or at most the last page), and the page rendered for a
\* batch that is not empty is not empty.
C25_CurrentPageValid ==
    view = "table" =>
        /\ currentPage = 0 \/ currentPage <= totalPages(sortedHits) - 1
        /\ sortedHits # <<>> => paginatedHits(sortedHits, currentPage) # <<>>

\* The calls of onRegionClick for a region that fetched its data.
Fetched(regionName) ==
    {k \in DOMAIN clicks : /\ clicks[k].region = regionName
                           /\ clicks[k].pc = "done"
                           /\ clicks[k].requests > 0
                           /\ clicks[k].result # NoData}

\* The cache holds a region exactly when a call has fetched its data, and
\* it holds the data one of these calls fetched.
CacheHoldsTheFetched ==
    /\ DOMAIN wikipediaCache = {r \in MapRegions : Fetched(r) # {}}
    /\ \A r \in DOMAIN wikipediaCache :
          \E k \in Fetched(r) : wikipediaCache[r] = clicks[k].result

\* C24: the cache holds the data of the regions that were fetched with
\* success and no entry is ever removed; a call for a cached region
\* returns the cached data, issues no request and leaves isLoadingDetails
\* as it is; a call for a region that is not cached issues a request; and
\* a call that ends with every candidate URL failed returns null and
\* leaves the cache as it is.
C24_MemoizingCache ==
    [][/\ CacheHoldsTheFetched'
       /\ DOMAIN wikipediaCache \subseteq DOMAIN wikipediaCache'
       /\ lastOp'.op = "onRegionClick" =>
             LET call == clicks'[Len(clicks')]
             IN  IF call.region \in DOMAIN wikipediaCache
                 THEN /\ call.pc = "done"
                      /\ call.requests = 0
                      /\ call.result = wikipediaCache[call.region]
                      /\ isLoadingDetails' = isLoadingDetails
                      /\ wikipediaCache' = wikipediaCache
                 ELSE /\ call.pc = "fetch"
                      /\ call.requests = 1
       /\ \A k \in DOMAIN clicks :
             (clicks[k].pc # "done" /\ clicks'[k].pc = "done"
                                    /\ clicks'[k].result = NoData)
                => /\ clicks'[k].requests = SearchUrls
                   /\ wikipediaCache' = wikipediaCache]_vars

\* Three calls for one region: the first ends with every candidate failed,
\* the second fetches again and succeeds, the third is answered from the
\* cache without a request.
C24_Witness ==
    /\ view = "map"
    /\ lastOp.op = "onRegionClick"
    /\ Len(clicks) = 3
    /\ \A k \in 1..3 : clicks[k].region = clicks[1].region /\ clicks[k].pc = "done"
    /\ clicks[1].result = NoData
    /\ clicks[1].requests = SearchUrls
    /\ clicks[2].requests > 0
    /\ clicks[2].result # NoData
    /\ clicks[3].requests = 0
    /\ clicks[3].result = wikipediaCache[clicks[1].region]

\* C26: when the details panel of a region is not loading, the description
\* and the Wikipedia link it shows are those a call of onRegionClick for
\* that region obtained (so its loading flag was cleared by the completion
\* of a fetch for that region).
C26_PanelShowsSelectedRegion ==
    (/\ view = "map"
     /\ selectedRegion # NoRegion
     /\ selectedRegion.id \in MapRegions
     /\ ~selectedRegion.loading)
        => \E k \in DOMAIN clicks :
              /\ clicks[k].region = selectedRegion.id
              /\ clicks[k].pc = "done"
              /\ selectedRegion.description =
                    (IF clicks[k].result = NoData
                     THEN <<"No description available.">>
                     ELSE clicks[k].result.extract)
              /\ selectedRegion.wikipedia = clicks[k].result.page

\* C27: a closed details panel (selectedRegion null) is opened by a region
\* click only.
C27_ClosedPanelStaysClosed ==
    [][(selectedRegion = NoRegion /\ selectedRegion' # NoRegion)
          => lastOp'.op = "onRegionClick"]_vars

\* The runs of the effect whose load resolves in the step.
ResolvedInStep(i) ==
    /\ i \in DOMAIN lguLoads
    /\ lguLoads[i].status = "loading"
    /\ lguLoads'[i].status = "resolved"

\* C28: regionData changes only when the load of the latest run of the
\* effect resolves, the run started for the current region parameter, and
\* then to what that load resolved to; when the load of an earlier run
\* resolves, regionData stays as it is.
C28_StaleLoadDiscarded ==
    [][/\ lguRegionData' # lguRegionData =>
             /\ ResolvedInStep(Len(lguLoads))
             /\ lguLoads[Len(lguLoads)].region = lguRegion
             /\ lguRegionData' \in {[region |-> lguRegion], NoLgu}
       /\ \A i \in 1..(Len(lguLoads) - 1) :
             ResolvedInStep(i) => lguRegionData' = lguRegionData]_vars

\* The load started for an earlier parameter has resolved after the
\* parameter changed and after the load for the current parameter: the
\* data shown is still that of the current parameter.
C28_Witness ==
    /\ view = "lgu"
    /\ lastOp.op = "LoadResolves"
    /\ lastOp.name # lguRegion
    /\ Len(lguLoads) >= 2
    /\ lguLoads[1].status = "resolved"
    /\ lguLoads[Len(lguLoads)].status = "resolved"
    /\ lguRegionData = [region |-> lguRegion]

\* C29: in both views, when Region and Province are both set, the
\* Province is one of the options the Province dropdown offers for that
\* Region.
C29_ProvinceWithinRegion ==
    (Truthy(filters["Region"]) /\ Truthy(filters["Province"]))
        => \E k \in DOMAIN provinceOptions(filters["Region"]) :
              provinceOptions(filters["Region"])[k].value = filters["Province"]

\* Region I with its Province Ilocos Norte chosen from the dropdown, a
\* year being selected as well.
C29_Witness ==
    /\ lastOp.op = "handleFilterChange"
    /\ lastOp.name = "Province"
    /\ filters["Region"] = <<"Region", " ", "I">>
    /\ filters["Province"] = <<"Ilocos", " ", "Norte">>
    /\ Truthy(filters["InfraYear"])

\* C30: an export is issued with the predicate and the query of the
\* page's live query at the click; a change of a filter or of the search
\* term leaves isExporting and every export as they are, and the
\* parameters of an export in flight never change.
C30_ExportParametersFrozen ==
    [][/\ lastOp'.op = "handleExportData" =>
             /\ Len(exports') = Len(exports) + 1
             /\ exports'[Len(exports')].status = "fetching"
             /\ exports'[Len(exports')].filters = configure.filters
             /\ exports'[Len(exports')].searchTerm = configure.query
       /\ lastOp'.op \in {"handleFilterChange", "handleSearchChange"} =>
             /\ isExporting' = isExporting
             /\ exports' = exports
       /\ \A i \in DOMAIN exports :
             exports[i].status = "fetching" =>
                /\ exports'[i].filters = exports[i].filters
                /\ exports'[i].searchTerm = exports[i].searchTerm]_vars

\* A filter was changed while an export is in flight: the export keeps the
\* predicate it was issued with, which is no longer that of the live query.
C30_Witness ==
    /\ lastOp.op = "handleFilterChange"
    /\ isExporting
    /\ \E i \in DOMAIN exports :
          /\ exports[i].status = "fetching"
          /\ exports[i].filters # configure.filters
          /\ exports[i].filters # ExportRequest(view, InitFilters, Empty).filters

=============================================================================
